---- MODULE Spec2Model ----
(***************************************************************************)
(* gotestsum (src/main.go): composition of the child command line, the     *)
(* lifecycle of the child process started by run(), the scan of its two    *)
(* pipes, the report writers, and the translation of run()'s result into   *)
(* a process exit status by main().                                        *)
(***************************************************************************)
EXTENDS Integers, Sequences, FiniteSets, TLC

\* ------------------------------------------------------------------ bounds
MaxArgs == 2          \* longest list of positional arguments
MaxRunArgs == 1       \* longest list of positional arguments of a whole run
MaxSuppress == 3      \* longest --no-summary list
MaxOutLines == 2      \* lines the child writes to standard output
MaxErrLines == 1      \* lines the child writes to standard error
LineBytes == 3        \* bytes of the longest line, its newline included
PipeCap == 5          \* bytes an OS pipe holds before the writer blocks
MaxExitStatus == 3    \* largest exit status the child chooses

\* ------------------------------------------------------- program constants
OrchestrationExit == 3     \* os.Exit(3) in main
DefaultExitCode == 127     \* fallback of ExitCodeWithDefault
PanicExit == 2             \* status of a Go program that dies of a panic
NoCode == 0 - 1            \* exit code of an ExitError without a status

ProgName == "gotestsum"
\* positional arguments: both json spellings, another flag, and a command
\* given by a path (the first word of a raw command)
ArgTokens == {"-json", "--json", "-v", "./tool"}
\* the directory of $PATH that holds a command found by exec.LookPath
BinDir == "/usr/local/go/bin/"
EnvKeys == {"TEST_DIRECTORY"}
\* os.LookupEnv results: unset, set to the empty string, set to a path
EnvStates == { [ok |-> FALSE, value |-> ""],
               [ok |-> TRUE,  value |-> ""],
               [ok |-> TRUE,  value |-> "./pkg"] }
JUnitFiles == {"", "junit.xml"}

SeqsUpTo(S, n) == UNION { [1..k -> S] : k \in 0..n }

VARIABLES
    opts,        \* options: args, rawCommand, junitFile, noSummary
    summary,     \* summary sections computed by summarizer
    sumIdx,      \* entries of opts.noSummary the summarizer loop has seen
    reported,    \* errors reported to run by the steps it invoked
    env,         \* process environment, key -> LookupEnv result
    pc,          \* position of main/run
    argv,        \* vector returned by goTestCmdArgs
    goTestProc,  \* proc returned by startGoTest: cmd, startCalled, started
    stdoutR,     \* parent's read end of the stdout pipe: none/open/closed
    stderrR,     \* parent's read end of the stderr pipe: none/open/closed
    cancelCalls, \* invocations of goTestProc.cancel
    handler,     \* event handler: none/open/closed
    child,       \* child process: none/running/exited/reaped
    childStatus, \* exit status of the child (NoCode: killed by a signal)
    outBuf,      \* bytes in flight in the stdout pipe
    errBuf,      \* lines in flight in the stderr pipe
    outWritten,  \* bytes the child has written to stdout, in order
    errWritten,  \* number of lines the child has written to stderr
    rdOut,       \* stdout reader of the scan: idle/run/eof/err
    rdErr,       \* stderr reader of the scan: idle/run/eof/err
    scanBuf,     \* bytes the stdout reader has read and not yet scanned
    delivered,   \* events handed to handler.Event, in order
    errLines,    \* stderr lines handed to handler.Err
    scanErr,     \* error returned by ScanTestOutput
    calls,       \* collaborator calls made by run, in order
    junitWrites, \* report files written by writeJUnitFile
    runErr,      \* error returned by run
    exitCode,    \* exit status of the process (NoCode: still running)
    stderrOut    \* lines main wrote to standard error

vars == << opts, summary, sumIdx, reported, env, pc, argv, goTestProc, stdoutR, stderrR, cancelCalls,
           handler, child, childStatus, outBuf, errBuf, outWritten,
           errWritten, rdOut, rdErr, scanBuf, delivered, errLines, scanErr,
           calls,
           junitWrites, runErr, exitCode, stderrOut >>

\* ------------------------------------------------------------------ errors
NilErr == [kind |-> "nil", code |-> NoCode, msg |-> "", wrap |-> << >>]
\* *exec.ExitError returned by cmd.Wait
ExitError(code) ==
    [kind |-> "ExitError", code |-> code, msg |-> "exit status", wrap |-> << >>]
\* any other error value
OtherErr(msg) == [kind |-> "error", code |-> NoCode, msg |-> msg, wrap |-> << >>]
\* mutant: the arguments are left out of the context
Wrapf_NoArgs(err, path, args) ==
    [kind |-> "error", code |-> NoCode, msg |-> err.msg,
     wrap |-> << "failed to run", path, << >> >>]

\* errors.Wrapf(err, "failed to run %s %s", path, strings.Join(args, " "))
Wrapf(err, path, args) ==
    [kind |-> "error", code |-> NoCode, msg |-> err.msg,
     wrap |-> << "failed to run", path, args >>]

\* ------------------------------------------------------ Argument Composer
LookupEnv(key) == env[key]

\* mutant: an override set to the empty string counts as unset
lookEnvWithDefault_EmptyIsUnset(key, defValue) ==
    IF LookupEnv(key).ok /\ LookupEnv(key).value # ""
    THEN LookupEnv(key).value ELSE defValue

lookEnvWithDefault(key, defValue) ==
    IF LookupEnv(key).ok THEN LookupEnv(key).value ELSE defValue

\* mutant: the caller's default is dropped for the "everything" path
pathFromEnv_FixedDefault(defaultPath) ==
    lookEnvWithDefault("TEST_DIRECTORY", "./...")

pathFromEnv(defaultPath) == lookEnvWithDefault("TEST_DIRECTORY", defaultPath)

\* mutant: only the short spelling is recognised
hasJSONArg_ShortOnly(args) ==
    \E i \in 1..Len(args) : args[i] = "-json"

hasJSONArg(args) ==
    \E i \in 1..Len(args) : args[i] = "-json" \/ args[i] = "--json"

\* mutant: the raw-command case falls through to the override append
goTestCmdArgs_RawAppendsPath(o) ==
    LET args == o.args
        defaultArgs == << "go", "test" >>
        testPath == pathFromEnv("")
        withPath == IF testPath # "" THEN Append(args, testPath) ELSE args
    IN  IF o.rawCommand THEN withPath
        ELSE IF Len(args) = 0
             THEN defaultArgs \o << "-json", pathFromEnv("./...") >>
        ELSE IF ~hasJSONArg(args)
             THEN (defaultArgs \o << "-json" >>) \o withPath
        ELSE defaultArgs \o withPath

goTestCmdArgs(o) ==
    LET args == o.args
        defaultArgs == << "go", "test" >>
        testPath == pathFromEnv("")
        withPath == IF testPath # "" THEN Append(args, testPath) ELSE args
    IN  IF o.rawCommand THEN args
        ELSE IF Len(args) = 0
             THEN defaultArgs \o << "-json", pathFromEnv("./...") >>
        ELSE IF ~hasJSONArg(args)
             THEN (defaultArgs \o << "-json" >>) \o withPath
        ELSE defaultArgs \o withPath

\* ------------------------------------------------------- Process Launcher
\* filepath.Base(name) # name: the command name contains a path separator
HasSeparator(name) == name \in {"./tool"}
\* exec.LookPath(name) for a name without a separator: found in a directory
\* of $PATH, or not found
LookPath(name, found) ==
    IF found THEN [path |-> BinDir \o name, ok |-> TRUE]
    ELSE [path |-> "", ok |-> FALSE]

\* exec.CommandContext(ctx, args[0], args[1:]...): Path is the name; a name
\* without a separator is looked up, a successful lookup replaces Path and a
\* failed one is kept in lookPathErr for cmd.Start to return.
CommandContext(args, found) ==
    LET name == args[1]
        lp == LookPath(name, found)
    IN  IF HasSeparator(name)
        THEN [Path |-> name, Args |-> args, lookPathErr |-> FALSE]
        ELSE IF lp.ok
        THEN [Path |-> lp.path, Args |-> args, lookPathErr |-> FALSE]
        ELSE [Path |-> name, Args |-> args, lookPathErr |-> TRUE]

NoCmd == [Path |-> "", Args |-> << >>, lookPathErr |-> FALSE]
NoProc == [cmd |-> NoCmd, startCalled |-> FALSE, started |-> FALSE]
StartOutcomes == {"ok", "stdoutPipeErr", "stderrPipeErr", "startErr"}

\* mutant: the error of StderrPipe is looked at only after cmd.Start
startGoTest_LateStderrCheck(args, found, outcome) ==
    LET p == [cmd |-> CommandContext(args, found),
              startCalled |-> FALSE, started |-> FALSE]
    IN  CASE outcome = "stdoutPipeErr" ->
                [p |-> p, stdout |-> "none", stderr |-> "none",
                 err |-> OtherErr("StdoutPipe")]
          [] outcome = "stderrPipeErr" ->
                [p |-> [p EXCEPT !.startCalled = TRUE], stdout |-> "open",
                 stderr |-> "none", err |-> OtherErr("StderrPipe")]
          [] outcome = "startErr" \/ p.cmd.lookPathErr ->
                [p |-> [p EXCEPT !.startCalled = TRUE], stdout |-> "closed",
                 stderr |-> "closed", err |-> OtherErr("Start")]
          [] OTHER ->
                [p |-> [p EXCEPT !.startCalled = TRUE, !.started = TRUE],
                 stdout |-> "open", stderr |-> "open", err |-> NilErr]

\* startGoTest(ctx, args) for a non-empty args; found is what exec.LookPath
\* answers and outcome what the operating system answers to StdoutPipe,
\* StderrPipe and Start.  The result carries the proc (its command, whether
\* cmd.Start was called and whether it succeeded), the state of the two
\* read ends and the error.
startGoTest(args, found, outcome) ==
    LET p == [cmd |-> CommandContext(args, found),
              startCalled |-> FALSE, started |-> FALSE]
    IN  CASE outcome = "stdoutPipeErr" ->
                [p |-> p, stdout |-> "none", stderr |-> "none",
                 err |-> OtherErr("StdoutPipe")]
          [] outcome = "stderrPipeErr" ->
                [p |-> p, stdout |-> "open", stderr |-> "none",
                 err |-> OtherErr("StderrPipe")]
          [] outcome = "startErr" \/ p.cmd.lookPathErr ->
                \* cmd.Start returns the failed lookup before it forks; a
                \* failed Start closes the descriptors it was given
                [p |-> [p EXCEPT !.startCalled = TRUE], stdout |-> "closed",
                 stderr |-> "closed", err |-> OtherErr("Start")]
          [] OTHER ->
                [p |-> [p EXCEPT !.startCalled = TRUE, !.started = TRUE],
                 stdout |-> "open", stderr |-> "open", err |-> NilErr]

\* ------------------------------------------------------- Exit Translator
ExitCodeWithDefault(err) ==
    IF err.kind = "nil" THEN 0
    ELSE IF err.kind = "ExitError" /\ err.code # NoCode THEN err.code
    ELSE DefaultExitCode

\* err.Error()
ErrorString(err) == << err.wrap, err.msg >>

\* mutant: no case for *exec.ExitError, every error takes the default case
mainExit_NoExitErrorCase(err) ==
    CASE err.kind = "nil" -> [code |-> 0, out |-> << >>]
      [] OTHER ->
            [code |-> OrchestrationExit,
             out |-> << << ProgName, ": Error: ", ErrorString(err) >> >>]

\* mutant: the default case exits without printing the diagnostic
mainExit_SilentDefault(err) ==
    CASE err.kind = "nil" -> [code |-> 0, out |-> << >>]
      [] err.kind = "ExitError" ->
            [code |-> ExitCodeWithDefault(err), out |-> << >>]
      [] OTHER -> [code |-> OrchestrationExit, out |-> << >>]

\* the switch of main over run's result: exit status and stderr lines
mainExit(err) ==
    CASE err.kind = "nil" -> [code |-> 0, out |-> << >>]
      [] err.kind = "ExitError" ->
            [code |-> ExitCodeWithDefault(err), out |-> << >>]
      [] OTHER ->
            [code |-> OrchestrationExit,
             out |-> << << ProgName, ": Error: ", ErrorString(err) >> >>]

\* --------------------------------------------------------- Summary Policy
\* testjson.Summary flags: one bit per section, all of them in SummarizeAll
SummarizeSkipped == 1
SummarizeFailed == 2
SummarizeErrors == 4
SummarizeOutput == 8
SummarizeAll ==
    SummarizeSkipped + SummarizeFailed + SummarizeErrors + SummarizeOutput
SectionFlags == {SummarizeSkipped, SummarizeFailed, SummarizeErrors,
                 SummarizeOutput}
\* names given to --no-summary: the three the switch knows and another one
SectionNames == {"failed", "skipped", "errors", "output"}

\* summary & flag != 0 on Go's two's-complement int
Includes(s, flag) == (s \div flag) % 2 = 1
\* the sections PrintSummary prints for the value s
Sections(s) == { f \in SectionFlags : Includes(s, f) }

\* mutant: the section is assigned instead of subtracted
summarizerCase_Assign(s, item) ==
    CASE item = "failed" -> SummarizeAll - SummarizeFailed
      [] item = "skipped" -> SummarizeAll - SummarizeSkipped
      [] item = "errors" -> SummarizeAll - SummarizeErrors
      [] OTHER -> s

\* summarizer, lines 202-209: the switch over one entry of opts.noSummary
summarizerCase(s, item) ==
    CASE item = "failed" -> s - SummarizeFailed
      [] item = "skipped" -> s - SummarizeSkipped
      [] item = "errors" -> s - SummarizeErrors
      [] OTHER -> s

\* summarizer, lines 199-210: the loop over the first n entries of the list
RECURSIVE summarizerLoop(_, _)
summarizerLoop(list, n) ==
    IF n = 0 THEN SummarizeAll
    ELSE summarizerCase(summarizerLoop(list, n - 1), list[n])

\* the value summarizer(opts) hands to testjson.PrintSummary
summarizer(o) == summarizerLoop(o.noSummary, Len(o.noSummary))

\* ------------------------------------------------------------------- Init
Options == [args : SeqsUpTo(ArgTokens, MaxArgs),
            rawCommand : BOOLEAN,
            junitFile : JUnitFiles,
            noSummary : SeqsUpTo(SectionNames, MaxSuppress)]
Environments == [EnvKeys -> EnvStates]
UnsetEnv == [k \in EnvKeys |-> [ok |-> FALSE, value |-> ""]]

\* the options of the runs that are followed from start to exit
RunOptions == { o \in Options : Len(o.args) <= MaxRunArgs
                                 /\ o.noSummary = << >> }
\* the options the Argument Composer is applied to
ArgOptions == { o \in Options : o.junitFile = "" /\ o.noSummary = << >> }
\* the options the Summary Policy is applied to
SummaryOptions == { o \in Options : o.args = << >> /\ ~o.rawCommand
                                     /\ o.junitFile = "" }
\* plain "gotestsum": no flags, no arguments
DefaultOptions == { o \in RunOptions : o.args = << >> /\ ~o.rawCommand
                                        /\ o.junitFile = "" }

\* the state once main has parsed the flags into opts
InitWith(O, E) ==
    /\ opts \in O
    /\ summary = SummarizeAll
    /\ sumIdx = 0
    /\ reported = {}
    /\ env \in E
    /\ pc = "run"
    /\ argv = << >>
    /\ goTestProc = NoProc
    /\ stdoutR = "none"
    /\ stderrR = "none"
    /\ cancelCalls = 0
    /\ handler = "none"
    /\ child = "none"
    /\ childStatus = NoCode
    /\ outBuf = << >>
    /\ errBuf = << >>
    /\ outWritten = << >>
    /\ errWritten = 0
    /\ rdOut = "idle"
    /\ rdErr = "idle"
    /\ scanBuf = << >>
    /\ delivered = << >>
    /\ errLines = << >>
    /\ scanErr = NilErr
    /\ calls = << >>
    /\ junitWrites = 0
    /\ runErr = NilErr
    /\ exitCode = NoCode
    /\ stderrOut = << >>

Init == InitWith(RunOptions, Environments)
InitArgs == InitWith(ArgOptions, Environments)
InitSummary == InitWith(SummaryOptions, {UnsetEnv})

sumVars == << summary, sumIdx >>
childVars == << child, childStatus, outBuf, errBuf, outWritten, errWritten >>
scanVars == << rdOut, rdErr, scanBuf, delivered, errLines, scanErr >>
procVars == << goTestProc, stdoutR, stderrR >>
mainVars == << exitCode, stderrOut >>

\* the error a step reported, as an entry of the set reported
Report(err) == IF err = NilErr THEN {} ELSE {err.msg}

\* run returns err: the deferred calls run in reverse order of registration,
\* handler.Close() (when registered), whose error is dropped, and then
\* goTestProc.cancel().
RunReturn(err, closeHandler) ==
    /\ runErr' = err
    /\ pc' = "returned"
    /\ handler' = IF closeHandler THEN "closed" ELSE handler
    /\ cancelCalls' = cancelCalls + 1
    /\ \E closeErr \in (IF closeHandler THEN BOOLEAN ELSE {FALSE}) :
          reported' = (reported \cup Report(err))
                          \cup (IF closeErr THEN {"handler.Close"} ELSE {})

\* ---------------------------------------------------------------- run()
\* run, lines 105-113: compose the command, start it, register cancel.
RunStartGoTest ==
    /\ pc = "run"
    /\ LET args == goTestCmdArgs(opts)
       IN  /\ argv' = args
           /\ IF Len(args) = 0
              THEN \* args[0] of an empty slice: the program panics
                   /\ pc' = "panicked"
                   /\ exitCode' = PanicExit
                   /\ UNCHANGED << procVars, child, runErr, reported >>
              ELSE \E found \in BOOLEAN, outcome \in StartOutcomes :
                   LET r == startGoTest(args, found, outcome)
                   IN  /\ goTestProc' = r.p
                       /\ stdoutR' = r.stdout
                       /\ stderrR' = r.stderr
                       /\ exitCode' = exitCode
                       /\ IF r.err # NilErr
                          THEN /\ runErr' = Wrapf(r.err, r.p.cmd.Path, r.p.cmd.Args)
                               /\ reported' = reported \cup Report(r.err)
                               /\ pc' = "returned"
                               /\ child' = child
                          ELSE /\ runErr' = runErr
                               /\ reported' = reported
                               /\ pc' = "handler"
                               /\ child' = "running"
    /\ UNCHANGED << opts, sumVars, env, cancelCalls, handler, childStatus, outBuf,
                    errBuf, outWritten, errWritten, scanVars, calls,
                    junitWrites, stderrOut >>

\* mutant: cmd.Wait is called before the pipes are scanned
RunNewEventHandler_WaitFirst ==
    /\ pc = "handler"
    /\ \E ok \in BOOLEAN :
          IF ok
          THEN /\ handler' = "open"
               /\ pc' = "wait"
               /\ calls' = Append(calls, "Wait")
               /\ UNCHANGED << runErr, cancelCalls, reported >>
          ELSE /\ RunReturn(OtherErr("newEventHandler"), FALSE)
               /\ UNCHANGED calls
    /\ UNCHANGED << opts, sumVars, env, argv, procVars, childVars, scanVars,
                    junitWrites, mainVars >>

\* mutant: the scan is not handed the child's standard output
RunNewEventHandler_StdoutNotScanned ==
    /\ pc = "handler"
    /\ \E ok \in BOOLEAN :
          IF ok
          THEN /\ handler' = "open"
               /\ pc' = "scan"
               /\ rdOut' = "eof"
               /\ rdErr' = "run"
               /\ calls' = Append(calls, "ScanTestOutput")
               /\ UNCHANGED << runErr, cancelCalls, reported >>
          ELSE /\ RunReturn(OtherErr("newEventHandler"), FALSE)
               /\ UNCHANGED << rdOut, rdErr, calls >>
    /\ UNCHANGED << opts, sumVars, env, argv, procVars, childVars, scanBuf,
                    delivered, errLines, scanErr, junitWrites, mainVars >>

\* run, lines 115-125: create the handler, register its Close, hand the scan
\* the two pipes of the child and the handler.
RunNewEventHandler ==
    /\ pc = "handler"
    /\ \E ok \in BOOLEAN :
          IF ok
          THEN /\ handler' = "open"
               /\ pc' = "scan"
               /\ rdOut' = "run"
               /\ rdErr' = "run"
               /\ calls' = Append(calls, "ScanTestOutput")
               /\ UNCHANGED << runErr, cancelCalls, reported >>
          ELSE /\ RunReturn(OtherErr("newEventHandler"), FALSE)
               /\ UNCHANGED << rdOut, rdErr, calls >>
    /\ UNCHANGED << opts, sumVars, env, argv, procVars, childVars, scanBuf,
                    delivered, errLines, scanErr, junitWrites, mainVars >>

\* ------------------------------------------------------ the child process
ParentAlive == pc \notin {"exited", "panicked"}
\* A byte of the child's standard output: its offset in the stream and what
\* it is: text of a test event ("j"), any other text ("x") or a newline.
ByteKinds == {"j", "x", "nl"}
\* the bytes of a stream written in arbitrary pieces: event text and
\* newlines, the line that fails to decode being the empty one
ChunkKinds == {"j", "nl"}
OutByte(pos, ch) == [pos |-> pos, ch |-> ch]
IsNewline(b) == b.ch = "nl"
HasNewline(bytes) == \E i \in 1..Len(bytes) : IsNewline(bytes[i])
\* the bytes a write of the given kinds appends after `written` bytes
OutBytes(written, kinds) ==
    [i \in 1..Len(kinds) |-> OutByte(written + i, kinds[i])]
\* a line written in one piece: its text, then the newline
LineKinds(ok) ==
    [i \in 1..LineBytes |->
        IF i = LineBytes THEN "nl" ELSE IF ok THEN "j" ELSE "x"]
\* newlines of a stream
NumLines(stream) ==
    Cardinality({ i \in 1..Len(stream) : IsNewline(stream[i]) })
\* the stream ends inside a line
Unterminated(stream) ==
    stream # << >> /\ ~IsNewline(stream[Len(stream)])
MidLine == Unterminated(outWritten)
\* a stream of at most MaxOutLines lines of at most LineBytes bytes each
WithinBounds(stream) ==
    /\ NumLines(stream) + (IF Unterminated(stream) THEN 1 ELSE 0)
          <= MaxOutLines
    /\ \A i \in 1..(Len(stream) - LineBytes + 1) :
          \E j \in i..(i + LineBytes - 1) : IsNewline(stream[j])

\* The child writes a whole line of its standard output in one write; the
\* write blocks while the pipe has no room for it.
ChildWriteStdout ==
    /\ child = "running"
    /\ ParentAlive
    /\ ~MidLine
    /\ NumLines(outWritten) < MaxOutLines
    /\ Len(outBuf) + LineBytes <= PipeCap
    /\ \E ok \in BOOLEAN :
          LET bytes == OutBytes(Len(outWritten), LineKinds(ok))
          IN  /\ outWritten' = outWritten \o bytes
              /\ outBuf' = outBuf \o bytes
    /\ UNCHANGED << opts, sumVars, reported, env, pc, argv, procVars,
                    cancelCalls, handler, child, childStatus, errBuf,
                    errWritten, scanVars, calls, junitWrites, runErr,
                    mainVars >>

\* The child writes any bytes the pipe has room for: part of a line, the end
\* of one line and the beginning of the next, several lines.
ChildWriteStdoutChunk ==
    /\ child = "running"
    /\ ParentAlive
    /\ \E n \in 1..(PipeCap - Len(outBuf)) :
       \E kinds \in [1..n -> ChunkKinds] :
          LET bytes == OutBytes(Len(outWritten), kinds)
          IN  /\ WithinBounds(outWritten \o bytes)
              /\ outWritten' = outWritten \o bytes
              /\ outBuf' = outBuf \o bytes
    /\ UNCHANGED << opts, sumVars, reported, env, pc, argv, procVars,
                    cancelCalls, handler, child, childStatus, errBuf,
                    errWritten, scanVars, calls, junitWrites, runErr,
                    mainVars >>

\* The child writes a line of its standard error.
ChildWriteStderr ==
    /\ child = "running"
    /\ ParentAlive
    /\ errWritten < MaxErrLines
    /\ (Len(errBuf) + 1) * LineBytes <= PipeCap
    /\ errWritten' = errWritten + 1
    /\ errBuf' = Append(errBuf, errWritten + 1)
    /\ UNCHANGED << opts, sumVars, reported, env, pc, argv, procVars, cancelCalls, handler, child,
                    childStatus, outBuf, outWritten, scanVars, calls,
                    junitWrites, runErr, mainVars >>

\* The child terminates, with an exit status or by a signal of its own
\* (NoCode); its ends of the two pipes close with it.
ChildExit ==
    /\ child = "running"
    /\ ParentAlive
    /\ \E status \in (0..MaxExitStatus) \cup {NoCode} :
          childStatus' = status
    /\ child' = "exited"
    /\ UNCHANGED << opts, sumVars, reported, env, pc, argv, procVars, cancelCalls, handler,
                    outBuf, errBuf, outWritten, errWritten, scanVars, calls,
                    junitWrites, runErr, mainVars >>

\* exec.CommandContext: once the context is cancelled, the goroutine that
\* watches it kills the process unless Wait has already returned.
WatchCtxKill ==
    /\ pc = "returned"
    /\ cancelCalls > 0
    /\ child = "running"
    /\ child' = "exited"
    /\ childStatus' = NoCode
    /\ UNCHANGED << opts, sumVars, reported, env, pc, argv, procVars, cancelCalls, handler,
                    outBuf, errBuf, outWritten, errWritten, scanVars, calls,
                    junitWrites, runErr, mainVars >>

\* ------------------------------------------------- testjson.ScanTestOutput
\* the scan reports the first error of its two readers
FirstErr(e) == IF scanErr = NilErr THEN e ELSE scanErr

\* index of the first newline among the bytes
FirstNewline(bytes) ==
    CHOOSE i \in 1..Len(bytes) :
        IsNewline(bytes[i]) /\ \A j \in 1..(i - 1) : ~IsNewline(bytes[j])
\* the first line of the bytes, without its newline, and what follows it
FirstLine(bytes) == SubSeq(bytes, 1, FirstNewline(bytes) - 1)
AfterFirstLine(bytes) == SubSeq(bytes, FirstNewline(bytes) + 1, Len(bytes))
\* a line decodes as a test event when it is the text of one
Decodes(line) ==
    line # << >> /\ \A i \in 1..Len(line) : line[i].ch = "j"

\* The stdout reader has a line: a line that does not decode ends the
\* reader with an error; an event goes to handler.Event, which may itself
\* return an error; otherwise the reader goes on in state next.
ScanLine(line, next) ==
    IF ~Decodes(line)
    THEN /\ rdOut' = "err"
         /\ scanErr' = FirstErr(OtherErr("failed to parse test output"))
         /\ delivered' = delivered
    ELSE /\ delivered' = Append(delivered, line)
         /\ \E herr \in BOOLEAN :
               IF herr
               THEN rdOut' = "err" /\ scanErr' = FirstErr(OtherErr("handler.Event"))
               ELSE rdOut' = next /\ scanErr' = scanErr

\* The stdout reader holds no bytes and reads one whole line from the pipe,
\* which it scans at once.
ReadStdout ==
    /\ pc = "scan"
    /\ rdOut = "run"
    /\ scanBuf = << >>
    /\ HasNewline(outBuf)
    /\ outBuf' = AfterFirstLine(outBuf)
    /\ scanBuf' = scanBuf
    /\ ScanLine(FirstLine(outBuf), "run")
    /\ UNCHANGED << opts, sumVars, reported, env, pc, argv, procVars, cancelCalls, handler, child,
                    childStatus, errBuf, outWritten, errWritten, rdErr,
                    errLines, calls, junitWrites, runErr, mainVars >>

\* The stdout reader holds no complete line and reads from the pipe: the
\* read returns any number of the bytes in flight, wherever lines end.
ReadStdoutChunk ==
    /\ pc = "scan"
    /\ rdOut = "run"
    /\ ~HasNewline(scanBuf)
    /\ outBuf # << >>
    /\ \E n \in 1..Len(outBuf) :
          /\ scanBuf' = scanBuf \o SubSeq(outBuf, 1, n)
          /\ outBuf' = SubSeq(outBuf, n + 1, Len(outBuf))
    /\ UNCHANGED << opts, sumVars, reported, env, pc, argv, procVars,
                    cancelCalls, handler, child, childStatus, errBuf,
                    outWritten, errWritten, rdOut, rdErr, delivered,
                    errLines, scanErr, calls, junitWrites, runErr, mainVars >>

\* The stdout reader scans the first complete line of the bytes it holds
\* and keeps what follows it.
ScanStdoutLine ==
    /\ pc = "scan"
    /\ rdOut = "run"
    /\ HasNewline(scanBuf)
    /\ scanBuf' = AfterFirstLine(scanBuf)
    /\ ScanLine(FirstLine(scanBuf), "run")
    /\ UNCHANGED << opts, sumVars, reported, env, pc, argv, procVars,
                    cancelCalls, handler, childVars, rdErr, errLines, calls,
                    junitWrites, runErr, mainVars >>

\* The stdout reader meets the end of the stream: nothing in flight and the
\* write end closed.  Bytes it still holds are the last line, which the
\* child did not end with a newline.
ReadStdoutEOF ==
    /\ pc = "scan"
    /\ rdOut = "run"
    /\ ~HasNewline(scanBuf)
    /\ outBuf = << >>
    /\ child # "running"
    /\ scanBuf' = << >>
    /\ IF scanBuf = << >>
       THEN rdOut' = "eof" /\ UNCHANGED << delivered, scanErr >>
       ELSE ScanLine(scanBuf, "eof")
    /\ UNCHANGED << opts, sumVars, reported, env, pc, argv, procVars, cancelCalls, handler,
                    childVars, rdErr, errLines, calls, junitWrites, runErr,
                    mainVars >>

\* The stderr reader takes the next line and hands it to handler.Err.
ReadStderr ==
    /\ pc = "scan"
    /\ rdErr = "run"
    /\ errBuf # << >>
    /\ errBuf' = Tail(errBuf)
    /\ errLines' = Append(errLines, Head(errBuf))
    /\ \E herr \in BOOLEAN :
          IF herr
          THEN rdErr' = "err" /\ scanErr' = FirstErr(OtherErr("handler.Err"))
          ELSE rdErr' = rdErr /\ scanErr' = scanErr
    /\ UNCHANGED << opts, sumVars, reported, env, pc, argv, procVars, cancelCalls, handler, child,
                    childStatus, outBuf, outWritten, errWritten, rdOut,
                    scanBuf, delivered, calls, junitWrites, runErr, mainVars >>

ReadStderrEOF ==
    /\ pc = "scan"
    /\ rdErr = "run"
    /\ errBuf = << >>
    /\ child # "running"
    /\ rdErr' = "eof"
    /\ UNCHANGED << opts, sumVars, reported, env, pc, argv, procVars, cancelCalls, handler,
                    childVars, rdOut, scanBuf, delivered, errLines, scanErr,
                    calls, junitWrites, runErr, mainVars >>

\* ScanTestOutput is ready to return: a reader failed, or both streams ended.
ScanDone ==
    \/ rdOut = "err"
    \/ rdErr = "err"
    \/ (rdOut = "eof" /\ rdErr = "eof")

\* mutant: cmd.Wait is called right after the scan, before the reports
RunScanReturn_WaitFirst ==
    /\ pc = "scan"
    /\ ScanDone
    /\ IF scanErr # NilErr
       THEN /\ RunReturn(scanErr, TRUE)
            /\ calls' = Append(calls, "scanReturned")
       ELSE /\ pc' = "wait"
            /\ calls' = calls \o << "scanReturned", "Wait" >>
            /\ UNCHANGED << runErr, handler, cancelCalls, reported >>
    /\ UNCHANGED << opts, sumVars, env, argv, procVars, childVars, scanVars,
                    junitWrites, mainVars >>

\* mutant: the error of the scan is not checked
RunScanReturn_IgnoreErr ==
    /\ pc = "scan"
    /\ ScanDone
    /\ calls' = Append(calls, "scanReturned")
    /\ pc' = "summary"
    /\ reported' = reported \cup Report(scanErr)
    /\ UNCHANGED << runErr, handler, cancelCalls >>
    /\ UNCHANGED << opts, sumVars, env, argv, procVars, childVars, scanVars,
                    junitWrites, mainVars >>

\* run, lines 121-128: ScanTestOutput returns; an error ends the run.
RunScanReturn ==
    /\ pc = "scan"
    /\ ScanDone
    /\ calls' = Append(calls, "scanReturned")
    /\ IF scanErr # NilErr
       THEN RunReturn(scanErr, TRUE)
       ELSE /\ pc' = "summary"
            /\ UNCHANGED << runErr, handler, cancelCalls, reported >>
    /\ UNCHANGED << opts, sumVars, env, argv, procVars, childVars, scanVars,
                    junitWrites, mainVars >>

\* mutant: the error of the summary printer is not checked
RunSummarizer_IgnoreErr ==
    /\ pc = "summary"
    /\ calls' = Append(calls, "summarizer")
    /\ pc' = "junit"
    /\ \E ok \in BOOLEAN :
          reported' = reported \cup (IF ok THEN {} ELSE {"PrintSummary"})
    /\ summary' = summarizer(opts)
    /\ sumIdx' = Len(opts.noSummary)
    /\ UNCHANGED << runErr, handler, cancelCalls >>
    /\ UNCHANGED << opts, env, argv, procVars, childVars, scanVars,
                    junitWrites, mainVars >>

\* run, lines 129-131: print the summary; an error ends the run.
RunSummarizer ==
    /\ pc = "summary"
    /\ calls' = Append(calls, "summarizer")
    /\ \E ok \in BOOLEAN :
          IF ok
          THEN /\ pc' = "junit"
               /\ UNCHANGED << runErr, handler, cancelCalls, reported >>
          ELSE RunReturn(OtherErr("PrintSummary"), TRUE)
    /\ summary' = summarizer(opts)
    /\ sumIdx' = Len(opts.noSummary)
    /\ UNCHANGED << opts, env, argv, procVars, childVars, scanVars,
                    junitWrites, mainVars >>

\* writeJUnitFile(filename, execution): nothing to do without a file name;
\* otherwise the file is created and written, which may fail.
writeJUnitFile(filename, ok) ==
    IF filename = "" THEN [err |-> NilErr, written |-> 0]
    ELSE IF ok THEN [err |-> NilErr, written |-> 1]
    ELSE [err |-> OtherErr("writeJUnitFile"), written |-> 0]

\* mutant: cmd.Wait is called whatever writeJUnitFile returned
RunWriteJUnitFile_WaitAnyway ==
    /\ pc = "junit"
    /\ \E ok \in BOOLEAN :
          LET r == writeJUnitFile(opts.junitFile, ok)
          IN  /\ junitWrites' = junitWrites + r.written
              /\ reported' = reported \cup Report(r.err)
    /\ pc' = "wait"
    /\ calls' = calls \o << "writeJUnitFile", "Wait" >>
    /\ UNCHANGED << runErr, handler, cancelCalls >>
    /\ UNCHANGED << opts, sumVars, env, argv, procVars, childVars, scanVars,
                    mainVars >>

\* run, lines 132-135: write the JUnit file; an error ends the run,
\* otherwise run calls cmd.Wait.
RunWriteJUnitFile ==
    /\ pc = "junit"
    /\ \E ok \in BOOLEAN :
          LET r == writeJUnitFile(opts.junitFile, ok)
          IN  /\ junitWrites' = junitWrites + r.written
              /\ IF r.err # NilErr
                 THEN /\ RunReturn(r.err, TRUE)
                      /\ calls' = Append(calls, "writeJUnitFile")
                 ELSE /\ pc' = "wait"
                      /\ calls' = calls \o << "writeJUnitFile", "Wait" >>
                      /\ UNCHANGED << runErr, handler, cancelCalls, reported >>
    /\ UNCHANGED << opts, sumVars, env, argv, procVars, childVars, scanVars, mainVars >>

\* cmd.Wait returns once the child has terminated: it reaps the child,
\* closes the read ends of the pipes and reports the child's status.
WaitResult(status, waitOk) ==
    IF ~waitOk THEN OtherErr("wait")
    ELSE IF status = 0 THEN NilErr
    ELSE ExitError(status)

\* run, line 135 and the deferred calls: return what cmd.Wait returned.
RunWaitReturn ==
    /\ pc = "wait"
    /\ child = "exited"
    /\ child' = "reaped"
    /\ stdoutR' = "closed"
    /\ stderrR' = "closed"
    /\ \E waitOk \in BOOLEAN :
          RunReturn(WaitResult(childStatus, waitOk), TRUE)
    /\ UNCHANGED << opts, sumVars, env, argv, goTestProc, childStatus, outBuf, errBuf,
                    outWritten, errWritten, scanVars, calls, junitWrites,
                    mainVars >>

\* ---------------------------------------------------------------- main()
\* main, lines 27-36: translate run's result into the exit status.
Main ==
    /\ pc = "returned"
    /\ pc' = "exited"
    /\ exitCode' = mainExit(runErr).code
    /\ stderrOut' = stderrOut \o mainExit(runErr).out
    /\ UNCHANGED << opts, sumVars, reported, env, argv, procVars, cancelCalls, handler,
                    childVars, scanVars, calls, junitWrites, runErr >>

Next ==
    \/ RunStartGoTest
    \/ RunNewEventHandler
    \/ RunScanReturn
    \/ RunSummarizer
    \/ RunWriteJUnitFile
    \/ RunWaitReturn
    \/ Main
    \/ ChildWriteStdout
    \/ ChildWriteStderr
    \/ ChildExit
    \/ WatchCtxKill
    \/ ReadStdout
    \/ ReadStdoutEOF
    \/ ReadStderr
    \/ ReadStderrEOF

Spec == Init /\ [][Next]_vars

\* plain "gotestsum"
InitDefault == InitWith(DefaultOptions, {UnsetEnv})

\* the run with a child whose writes and a pipe whose reads carry any
\* number of bytes, whatever the lines of the stream
NextChunked ==
    \/ RunStartGoTest
    \/ RunNewEventHandler
    \/ RunScanReturn
    \/ RunSummarizer
    \/ RunWriteJUnitFile
    \/ RunWaitReturn
    \/ Main
    \/ ChildWriteStdoutChunk
    \/ ChildWriteStderr
    \/ ChildExit
    \/ WatchCtxKill
    \/ ReadStdoutChunk
    \/ ScanStdoutLine
    \/ ReadStdoutEOF
    \/ ReadStderr
    \/ ReadStderrEOF

SpecChunked == InitDefault /\ [][NextChunked]_vars

\* A child that writes all of its output before it terminates: it cannot
\* exit while a write of its is blocked on a full pipe.
ChildExitWhenDone ==
    /\ NumLines(outWritten) = MaxOutLines
    /\ errWritten = MaxErrLines
    /\ ChildExit

NextLive ==
    \/ RunStartGoTest
    \/ RunNewEventHandler
    \/ RunScanReturn
    \/ RunSummarizer
    \/ RunWriteJUnitFile
    \/ RunWaitReturn
    \/ Main
    \/ ChildWriteStdout
    \/ ChildWriteStderr
    \/ ChildExitWhenDone
    \/ WatchCtxKill
    \/ ReadStdout
    \/ ReadStdoutEOF
    \/ ReadStderr
    \/ ReadStderrEOF

\* Every call run makes returns, the goroutines of the scan are scheduled,
\* and the child keeps running until it terminates: a step that can be
\* taken is eventually taken.
SpecLive == InitDefault /\ [][NextLive]_vars /\ WF_vars(NextLive)

\* the Argument Composer applied to every option set, up to the start
NextArgs ==
    \/ RunStartGoTest
    \/ Main

SpecArgs == InitArgs /\ [][NextArgs]_vars

\* summarizer, lines 201-210: one iteration of the loop over opts.noSummary
SummarizerIter ==
    /\ sumIdx < Len(opts.noSummary)
    /\ summary' = summarizerCase(summary, opts.noSummary[sumIdx + 1])
    /\ sumIdx' = sumIdx + 1
    /\ UNCHANGED << opts, reported, env, pc, argv, procVars, cancelCalls,
                    handler, childVars, scanVars, calls, junitWrites, runErr,
                    mainVars >>

\* the Summary Policy applied to every --no-summary list
SpecSummarizer == InitSummary /\ [][SummarizerIter]_vars

TypeOK ==
    /\ opts \in Options
    /\ pc \in {"run", "handler", "scan", "summary", "junit", "wait",
               "returned", "exited", "panicked"}
    /\ child \in {"none", "running", "exited", "reaped"}
    /\ stdoutR \in {"none", "open", "closed"}
    /\ stderrR \in {"none", "open", "closed"}
    /\ handler \in {"none", "open", "closed"}
    /\ rdOut \in {"idle", "run", "eof", "err"}
    /\ rdErr \in {"idle", "run", "eof", "err"}
    /\ cancelCalls \in 0..1
    /\ sumIdx \in 0..Len(opts.noSummary)
    /\ summary \in Int
    /\ summary = summarizerLoop(opts.noSummary, sumIdx)
    /\ reported \subseteq {"StdoutPipe", "StderrPipe", "Start",
                            "newEventHandler", "failed to parse test output",
                            "handler.Event", "handler.Err", "PrintSummary",
                            "writeJUnitFile", "wait", "exit status",
                            "handler.Close"}
    /\ Len(outBuf) <= PipeCap /\ Len(errBuf) * LineBytes <= PipeCap
    /\ WithinBounds(outWritten)
    /\ \A i \in 1..Len(outWritten) :
          outWritten[i].pos = i /\ outWritten[i].ch \in ByteKinds

\* ================================================================= claims
Finished == pc \in {"returned", "exited"}
Composed == pc # "run"
EnvOverride == env["TEST_DIRECTORY"]
ContainsJSONFlag(a) == \E i \in 1..Len(a) : a[i] \in {"-json", "--json"}
\* the override as the "arguments supplied" branches append it
OverrideSuffix ==
    IF EnvOverride.ok /\ EnvOverride.value # ""
    THEN << EnvOverride.value >> ELSE << >>
IsPrefix(s, t) == Len(s) <= Len(t) /\ \A i \in 1..Len(s) : s[i] = t[i]
Called(name) == \E i \in 1..Len(calls) : calls[i] = name

\* C1: when run returns the child's non-zero-exit error carrying status N,
\* main exits with exactly status N (the child's own status) and writes no
\* "<program-name>: Error: ..." line to standard error.
C1_ChildStatusPropagated ==
    (pc = "exited" /\ runErr.kind = "ExitError" /\ runErr.code # NoCode)
        => /\ exitCode = runErr.code
           /\ exitCode = childStatus
           /\ stderrOut = << >>

C1_Witness ==
    /\ pc = "exited"
    /\ runErr = ExitError(2)
    /\ childStatus = 2
    /\ exitCode = 2

\* C2: when run returns an error that is not a child non-zero-exit error,
\* main writes exactly one line "<program-name>: Error: <message>" to
\* standard error and exits with status 3; a run that returns no error
\* never exits with status 3.
C2_OrchestrationFailureExit ==
    pc = "exited" =>
        /\ runErr.kind = "error" =>
              /\ exitCode = 3
              /\ stderrOut = << << ProgName, ": Error: ",
                                   << runErr.wrap, runErr.msg >> >> >>
        /\ runErr.kind = "nil" => exitCode # 3

C2_Witness ==
    /\ pc = "exited"
    /\ runErr.kind = "error"
    /\ runErr.msg = "Start"
    /\ exitCode = 3
    /\ Len(stderrOut) = 1

\* C3: on every exit path of run, the start failure included, the
\* cancellation handle returned by startGoTest has been invoked when run
\* returns.
C3_CancelOnEveryExitPath ==
    pc = "returned" => cancelCalls >= 1

\* C4: after run returns on a run whose child was started, the child is no
\* longer running and the read ends of both pipes are closed.
C4_NoLeakAfterRun ==
    (pc = "returned" /\ goTestProc.started)
        => /\ child # "running"
           /\ stdoutR = "closed"
           /\ stderrR = "closed"

\* C5: the steps of run occur in the order scan returns, summary printed,
\* JUnit writer invoked, cmd.Wait called; no report writer runs before the
\* scan has returned, and cmd.Wait is called only with both streams drained.
C5_StepOrder ==
    /\ IsPrefix(calls, << "ScanTestOutput", "scanReturned", "summarizer",
                          "writeJUnitFile", "Wait" >>)
    /\ Called("Wait") =>
          /\ rdOut = "eof" /\ rdErr = "eof"
          /\ outBuf = << >> /\ errBuf = << >>
          /\ scanBuf = << >>
          /\ child # "running"

C5_Witness ==
    /\ pc = "wait"
    /\ Len(calls) = 5
    /\ Len(delivered) = MaxOutLines
    /\ Len(errLines) = MaxErrLines

\* C6: when the scan returns an error, run returns that error at once:
\* neither the summary printer nor the JUnit writer is invoked, no report
\* is written, and the process ends as an orchestration failure.
C6_ScanErrorAbortsRun ==
    (Finished /\ scanErr # NilErr)
        => /\ runErr = scanErr
           /\ ~Called("summarizer")
           /\ ~Called("writeJUnitFile")
           /\ junitWrites = 0
           /\ pc = "exited" => (exitCode = 3 /\ Len(stderrOut) = 1)

C6_Witness ==
    /\ pc = "exited"
    /\ scanErr = OtherErr("failed to parse test output")
    /\ Len(delivered) = 1
    /\ opts.junitFile # ""
    /\ exitCode = 3

\* C7 as stated: with raw-command unset and a json flag among the
\* positional arguments, the composed vector is exactly the positional
\* arguments.
C7_Original ==
    (Composed /\ ~opts.rawCommand /\ ContainsJSONFlag(opts.args))
        => argv = opts.args

\* C7 amended: with raw-command unset and a json flag ("-json" or "--json")
\* among the positional arguments, the composed vector is "go", "test", then
\* the positional arguments in order with no "-json" injected, then the
\* TEST_DIRECTORY override if and only if it is set and non-empty.
C7_NoFlagInjection ==
    (Composed /\ ~opts.rawCommand /\ ContainsJSONFlag(opts.args))
        => argv = (<< "go", "test" >> \o opts.args) \o OverrideSuffix

C7_Witness ==
    /\ Composed
    /\ ~opts.rawCommand
    /\ opts.args = << "-v", "--json" >>
    /\ EnvOverride = [ok |-> TRUE, value |-> "./pkg"]
    /\ argv = << "go", "test", "-v", "--json", "./pkg" >>

\* C8: with raw-command unset and no positional arguments, the composed
\* vector is "go", "test", "-json", P, where P is the value of
\* TEST_DIRECTORY when the variable is set (the empty string included) and
\* "./..." when it is unset.
C8_DefaultCommand ==
    (Composed /\ ~opts.rawCommand /\ opts.args = << >>)
        => argv = << "go", "test", "-json",
                     IF EnvOverride.ok THEN EnvOverride.value ELSE "./..." >>

C8_Witness ==
    /\ Composed
    /\ ~opts.rawCommand
    /\ opts.args = << >>
    /\ EnvOverride = [ok |-> TRUE, value |-> ""]
    /\ argv = << "go", "test", "-json", "" >>

\* C9: with raw-command unset, at least one positional argument and none
\* equal to "-json" or "--json", the composed vector is "go", "test",
\* "-json", then the positional arguments in order, then the TEST_DIRECTORY
\* override if and only if it is set and non-empty.
C9_FlagInjected ==
    (Composed /\ ~opts.rawCommand /\ Len(opts.args) > 0
              /\ ~ContainsJSONFlag(opts.args))
        => argv = (<< "go", "test", "-json" >> \o opts.args) \o OverrideSuffix

C9_Witness ==
    /\ Composed
    /\ ~opts.rawCommand
    /\ opts.args = << "-v" >>
    /\ ~EnvOverride.ok
    /\ argv = << "go", "test", "-json", "-v" >>

\* C10: with raw-command set, the composed vector is the positional
\* arguments verbatim, whatever TEST_DIRECTORY holds and whether or not a
\* json flag is present.
C10_RawCommandVerbatim ==
    (Composed /\ opts.rawCommand) => argv = opts.args

C10_Witness ==
    /\ Composed
    /\ opts.rawCommand
    /\ opts.args = << "-v", "-json" >>
    /\ EnvOverride = [ok |-> TRUE, value |-> "./pkg"]
    /\ argv = << "-v", "-json" >>

\* ------------------------------------------------- Summary Policy claims
SummarizerDone == sumIdx = Len(opts.noSummary)
Named(name) == \E i \in 1..Len(opts.noSummary) : opts.noSummary[i] = name
\* the sections the switch of summarizer recognises, by name
RecognizedSections ==
    { << "failed", SummarizeFailed >>, << "skipped", SummarizeSkipped >>,
      << "errors", SummarizeErrors >> }
\* the list with its entries taken in the order p
Permuted(list, p) == [i \in 1..Len(list) |-> list[p[i]]]

\* C11: repeating entries of the suppress list does not change the
\* effective section set: for every list L and every entry of L repeated
\* once more, summarizer computes the same set of sections as for L.
C11_DuplicatesIgnored ==
    SummarizerDone =>
        \A i \in 1..Len(opts.noSummary) :
            LET repeated == Append(opts.noSummary, opts.noSummary[i])
            IN  Sections(summarizerLoop(repeated, Len(repeated)))
                    = Sections(summary)

\* C12: the effective section set does not depend on the order of the
\* suppress list: every permutation of the list gives the sections that
\* the loop computed for the list itself.
C12_OrderIrrelevant ==
    SummarizerDone =>
        \A p \in Permutations(1..Len(opts.noSummary)) :
            LET permuted == Permuted(opts.noSummary, p)
            IN  Sections(summarizerLoop(permuted, Len(permuted)))
                    = Sections(summary)

C12_Witness ==
    /\ SummarizerDone
    /\ opts.noSummary = << "skipped", "output", "failed" >>
    /\ Sections(summary) = {SummarizeErrors, SummarizeOutput}

\* C13: at every step of the summarizer loop the value stays within the
\* base set (no flag outside SummarizeAll), and at the end every recognised
\* section named in the list is absent while every other section is still
\* enabled.
C13_OnlyShrinks ==
    /\ summary \in 0..SummarizeAll
    /\ SummarizerDone =>
          /\ \A r \in RecognizedSections :
                Named(r[1]) <=> ~Includes(summary, r[2])
          /\ Includes(summary, SummarizeOutput)

\* ------------------------------------------------------- pipeline claims
\* The lines of a byte stream, in stream order, each without its newline;
\* cur is the line being collected.  Bytes after the last newline are a line
\* only once the stream has ended.
RECURSIVE StreamLines(_, _, _)
StreamLines(stream, cur, ended) ==
    IF stream = << >>
    THEN IF ended /\ cur # << >> THEN << cur >> ELSE << >>
    ELSE IF Head(stream).ch = "nl"
    THEN << cur >> \o StreamLines(Tail(stream), << >>, ended)
    ELSE StreamLines(Tail(stream), Append(cur, Head(stream)), ended)
\* a line that is the text of a test event
IsEvent(line) ==
    line # << >> /\ \A i \in 1..Len(line) : line[i].ch \notin {"x", "nl"}
\* the lines up to and including the first that is not an event
RECURSIVE UpToFirstBad(_)
UpToFirstBad(lines) ==
    IF lines = << >> THEN << >>
    ELSE IF ~IsEvent(Head(lines)) THEN << Head(lines) >>
    ELSE << Head(lines) >> \o UpToFirstBad(Tail(lines))
GoodLines(lines) == SelectSeq(lines, IsEvent)

\* C14: whatever the interleaving of the two readers and however the bytes
\* of the child's standard output are split into writes and into reads, the
\* events handed to the handler are the lines of the byte stream in stream
\* order: always a prefix of its decodable lines (nothing after a line that
\* fails to decode, no part of a line that has not ended), and all of its
\* lines once the scan has returned without error.
C14_StdoutOrderPreserved ==
    /\ IsPrefix(delivered,
                GoodLines(UpToFirstBad(
                    StreamLines(outWritten, << >>, child # "running"))))
    /\ (Called("scanReturned") /\ scanErr = NilErr)
          => delivered = StreamLines(outWritten, << >>, TRUE)

\* the reader holds the first byte of a line whose rest fills the pipe
\* together with the whole next line, a line of standard error having been
\* handled in between
C14_Witness ==
    /\ pc = "scan"
    /\ scanBuf = << OutByte(1, "j") >>
    /\ Len(outBuf) = PipeCap
    /\ NumLines(outBuf) = 2
    /\ errLines = << 1 >>
    /\ delivered = << >>

\* ------------------------------------------- launcher and error claims
StartAttempted == Composed /\ pc # "panicked"
PipeErrors == {"StdoutPipe", "StderrPipe"}
StartErrors == PipeErrors \cup {"Start"}
\* the path of the attempted command: its first word as given when that
\* names a file or was not found in $PATH, else the file found for it
CommandPath ==
    IF HasSeparator(argv[1]) \/ goTestProc.cmd.lookPathErr
    THEN argv[1] ELSE BinDir \o argv[1]

\* C15: cmd.Start is called only once both pipes have been opened; when
\* opening a pipe fails the error is returned at once, cmd.Start is not
\* called and no process exists; after every failure of startGoTest the
\* returned proc still carries the command, whose path and arguments run
\* puts into the error it returns.
C15_StartAfterPipes ==
    StartAttempted =>
        /\ goTestProc.startCalled => (stdoutR # "none" /\ stderrR # "none")
        /\ (reported \cap PipeErrors # {}) =>
              /\ ~goTestProc.startCalled
              /\ child = "none"
              /\ runErr.kind = "error" /\ runErr.msg \in PipeErrors
        /\ ~goTestProc.started =>
              /\ goTestProc.cmd.Path = CommandPath
              /\ goTestProc.cmd.Args = argv
              /\ runErr.wrap = << "failed to run", goTestProc.cmd.Path, argv >>

C15_Witness ==
    /\ pc = "returned"
    /\ reported = {"StderrPipe"}
    /\ stdoutR = "open"
    /\ ~goTestProc.startCalled
    /\ goTestProc.cmd.Args = << "go", "test", "-json", "./..." >>
    /\ goTestProc.cmd.Path = "/usr/local/go/bin/go"
    /\ runErr.wrap = << "failed to run", "/usr/local/go/bin/go",
                        << "go", "test", "-json", "./..." >> >>

ScanErrors == {"failed to parse test output", "handler.Event", "handler.Err"}
ReportErrors == {"PrintSummary", "writeJUnitFile"}
\* the errors that end run before it calls cmd.Wait
EarlyErrors ==
    (StartErrors \cup {"newEventHandler"}) \cup (ScanErrors \cup ReportErrors)
WaitCalls == Cardinality({ i \in 1..Len(calls) : calls[i] = "Wait" })

\* C16 as stated: if any step run invokes, handler.Close included, reports
\* an error, run returns an error and the process exits non-zero.
C16_Original ==
    (pc = "exited" /\ reported # {})
        => (runErr # NilErr /\ exitCode # 0)

\* C16 amended: if the start, the handler creation, the scan, the summary
\* printer, the JUnit writer or cmd.Wait reports an error, run returns an
\* error and the process exits non-zero; the error of the deferred
\* handler.Close is the one that is dropped.
C16_NoErrorSwallowed ==
    (pc = "exited" /\ reported \ {"handler.Close"} # {})
        => (runErr # NilErr /\ exitCode # 0)

C16_Witness ==
    /\ pc = "exited"
    /\ reported = {"PrintSummary", "handler.Close"}
    /\ runErr = OtherErr("PrintSummary")
    /\ exitCode = 3

\* C17 as stated: every internal error run returns (setup, handler creation,
\* decode, summary write, JUnit write) carries the attempted command and its
\* arguments.
C17_Original ==
    (Finished /\ runErr.kind = "error" /\ runErr.msg \in EarlyErrors)
        => runErr.wrap = << "failed to run", CommandPath, argv >>

\* C17 amended: the setup error run returns (a pipe or the start failed)
\* carries the attempted command and its arguments; every other error run
\* returns is returned as the step reported it, without that context.
C17_OnlyStartErrorWrapped ==
    (Finished /\ runErr.kind = "error") =>
        IF runErr.msg \in StartErrors
        THEN runErr.wrap = << "failed to run", CommandPath, argv >>
        ELSE runErr.wrap = << >>

C17_Witness ==
    /\ pc = "exited"
    /\ reported = {"Start"}
    /\ goTestProc.cmd.lookPathErr
    /\ runErr.wrap = << "failed to run", "go",
                        << "go", "test", "-json", "-v" >> >>
    /\ stderrOut[1][3][1] = runErr.wrap

\* C18: cmd.Wait is called at most once, and it is called if and only if
\* the start, the handler creation, the scan, the summary printer and the
\* JUnit writer all succeeded; on that path run returns the child's status;
\* when the scan or a report writer fails, the child is not waited on and
\* the run ends as an orchestration failure (diagnostic and status 3), not
\* as the child's exit, whatever the child's status.
C18_WaitOnlyOnSuccessPath ==
    /\ WaitCalls <= 1
    /\ Called("Wait") => reported \cap EarlyErrors = {}
    /\ (Finished /\ reported \cap EarlyErrors = {}) => Called("Wait")
    /\ (Finished /\ Called("Wait") /\ "wait" \notin reported) =>
          runErr = IF childStatus = 0 THEN NilErr ELSE ExitError(childStatus)
    /\ (Finished /\ reported \cap (ScanErrors \cup ReportErrors) # {}) =>
          /\ runErr.kind = "error"
          /\ child # "reaped"
          /\ pc = "exited" => (exitCode = 3 /\ Len(stderrOut) = 1)

C18_Witness ==
    /\ pc = "exited"
    /\ "writeJUnitFile" \in reported
    /\ child = "exited"
    /\ childStatus = 2
    /\ ~Called("Wait")
    /\ exitCode = 3

\* C19: for every option set the vector goTestCmdArgs returns is non-empty,
\* so that startGoTest can take args[0] and the run does not crash.
C19_ArgvNonEmpty ==
    Composed => (Len(argv) > 0 /\ pc # "panicked")

\* C20: once the child runs, and provided it terminates after writing its
\* output and every call returns, run returns and main reaches an exit
\* status; and run is never inside cmd.Wait while the child still runs, so
\* the child is never blocked on a full pipe with run waiting for it.
C20_RunTerminates ==
    /\ [](pc = "wait" => child # "running")
    /\ (child = "running") ~> (pc = "exited" /\ exitCode # NoCode)

C20_Witness ==
    /\ pc = "exited"
    /\ Called("Wait")
    /\ Len(delivered) = MaxOutLines
    /\ Len(errLines) = MaxErrLines
    /\ child = "reaped"
    /\ exitCode = 0

====
